---- MODULE Spec2Model ----
(***************************************************************************)
(* Disaster-Watch: the map view's geographic bounds filter.                *)
(*                                                                         *)
(* MapView (pages/MapView.jsx) owns the filter state, the displayed        *)
(* incident collection, the loading indicator and one periodic timer.      *)
(* OpenStreetMap (components/OpenStreetMap.jsx) owns the selection-mode     *)
(* flag and MapSelectionTool owns the drag state.                          *)
(*                                                                         *)
(* One action is one browser event: the handler that runs, the re-render   *)
(* its state updates cause and the effects that re-render runs.  A         *)
(* request awaiting its response is an element of inflight.                *)
(***************************************************************************)
EXTENDS Integers, Sequences, FiniteSets, TLC

VARIABLES
    phase,           \* "rendered" (first render done), "mounted", "unmounted"
    incidents,       \* MapView: displayed incident collection
    markers,         \* OpenStreetMap: the Marker elements of the last render
    mapCenter,       \* OpenStreetMap: the memoised map centre
    loading,         \* MapView: loading indicator
    selectedBounds,  \* MapView: bounds filter, Null or a GeoBounds record
    severityFilter,  \* MapView: severity filter, None or a severity
    typeFilter,      \* MapView: incident_type filter, None or a type
    intervals,       \* MapView: the live setInterval timers, oldest first;
                     \*          each is the arguments its callback closed over
    inflight,        \* requests issued by axios.get and not yet answered,
                     \* in issue order; each element is the request's url
    response,        \* what axios.get produced in the event just handled:
                     \* Null unless that event was a request completing
    latest,          \* outcome of the most recently issued request
    selectionMode,   \* OpenStreetMap: selection mode flag
    tempBounds,      \* MapSelectionTool: provisional rectangle
    isDrawing,       \* MapSelectionTool: drag in progress
    startPoint,      \* MapSelectionTool: startPoint.current, the anchor
    handlers,        \* MapSelectionTool: Null, or the values the registered
                     \*          map listeners closed over
    buttonDown,      \* the pointer button is held
    emitted,         \* the onBoundsSelect call made by the event just
                     \* handled: Null unless that event ended a drag
    emitCount,       \* onBoundsSelect calls since selection mode was armed
    dashPhase,       \* Dashboard: "rendered", "mounted", "unmounted"
    dashIncidents,   \* Dashboard: incidents
    dashAnalytics,   \* Dashboard: analytics, Null or the summary received
    dashLoading,     \* Dashboard: loading
    dashError,       \* Dashboard: error, None or the message of the failure
    dashIntervals,   \* Dashboard: number of live setInterval timers
    dashPolls,       \* Dashboard: the fetchData calls awaiting Promise.all,
                     \*            oldest first; each holds the response of
                     \*            its two requests, Null while outstanding
    dashSettled      \* Dashboard: how the fetchData call that settled in the
                     \*            event just handled ended: None, "ok", "error"

mapVars == <<phase, incidents, markers, mapCenter, loading, selectedBounds,
             severityFilter, typeFilter, intervals, inflight, response,
             latest, selectionMode, tempBounds, isDrawing, startPoint,
             handlers, buttonDown, emitted, emitCount>>

dashVars == <<dashPhase, dashIncidents, dashAnalytics, dashLoading, dashError,
              dashIntervals, dashPolls, dashSettled>>

vars == <<mapVars, dashVars>>

viewVars == <<incidents, markers, mapCenter, loading, selectedBounds,
              severityFilter, typeFilter, intervals, inflight, latest>>

toolVars == <<selectionMode, tempBounds, isDrawing, startPoint, handlers>>

\* JavaScript null, where the value is otherwise an object.
Null == <<>>

\* JavaScript null, where the value is otherwise a string.
None == "none"

\* Requests that may be outstanding at once.
MaxInFlight == 2

\* The page size of the unscoped listing query.
PageLimit == 200

\* Coordinates the pointer can be at (latitude, longitude).
Points ==
    { [lat |-> 41, lng |-> -75], [lat |-> 39, lng |-> -73] }

Severities == {"critical"}

Types == {"flood"}

(***************************************************************************)
(* The request fetchIncidents builds.  A url is its path and its query     *)
(* parameters; a parameter that is not sent is not in the domain.          *)
(***************************************************************************)
WithParam(url, key, value) ==
    [url EXCEPT !.params = (key :> value) @@ @]

HasParam(url, key) == key \in DOMAIN url.params


\* BuildUrl whose unscoped branch forgets the severity constraint.
BuildUrlUnscopedDropsSeverity(bounds, severity, type) ==
    LET base ==
            IF bounds # Null
            THEN [path   |-> "/incidents/by-bounds",
                  params |-> [north |-> bounds.north, south |-> bounds.south,
                              east  |-> bounds.east,  west  |-> bounds.west]]
            ELSE [path   |-> "/incidents",
                  params |-> [limit |-> PageLimit]]
        withSeverity ==
            IF severity # None /\ bounds # Null
            THEN WithParam(base, "severity", severity)
            ELSE base
    IN  IF type # None THEN WithParam(withSeverity, "incident_type", type)
                       ELSE withSeverity

BuildUrl(bounds, severity, type) ==
    LET base ==
            IF bounds # Null
            THEN [path   |-> "/incidents/by-bounds",
                  params |-> [north |-> bounds.north, south |-> bounds.south,
                              east  |-> bounds.east,  west  |-> bounds.west]]
            ELSE [path   |-> "/incidents",
                  params |-> [limit |-> PageLimit]]
        withSeverity ==
            IF severity # None THEN WithParam(base, "severity", severity)
                               ELSE base
    IN  IF type # None THEN WithParam(withSeverity, "incident_type", type)
                       ELSE withSeverity

(***************************************************************************)
(* The backend, as section 6 of the specification describes it: the        *)
(* incidents it holds and the answer to each of the two listing queries.   *)
(***************************************************************************)
ServerIncidents ==
    << [id |-> "1", severity |-> "critical", incident_type |-> "flood",
        locations |-> << [latitude |-> 40, longitude |-> -74] >>],
       [id |-> "2", severity |-> "low", incident_type |-> "fire",
        locations |-> << [latitude |-> 10, longitude |-> 10] >>] >>

MatchesFilters(inc, url) ==
    /\ HasParam(url, "severity") => inc.severity = url.params.severity
    /\ HasParam(url, "incident_type") =>
           inc.incident_type = url.params.incident_type

InBounds(inc, url) ==
    \E k \in 1..Len(inc.locations) :
        LET loc == inc.locations[k]
        IN  /\ url.params.south <= loc.latitude
            /\ loc.latitude <= url.params.north
            /\ url.params.west <= loc.longitude
            /\ loc.longitude <= url.params.east

MatchesQuery(inc, url) ==
    /\ MatchesFilters(inc, url)
    /\ url.path = "/incidents/by-bounds" => InBounds(inc, url)

RECURSIVE Matching(_, _)
\* The incidents of seq the query url selects, in stored order.
Matching(seq, url) ==
    IF seq = <<>> THEN <<>>
    ELSE IF MatchesQuery(Head(seq), url)
         THEN <<Head(seq)>> \o Matching(Tail(seq), url)
         ELSE Matching(Tail(seq), url)

ServerResponse(url) ==
    LET matching == Matching(ServerIncidents, url)
    IN  IF url.path = "/incidents" /\ Len(matching) > url.params.limit
        THEN SubSeq(matching, 1, url.params.limit)
        ELSE matching

(***************************************************************************)
(* L.latLngBounds(a, b) and the four getters handleMouseUp reads: the      *)
(* bounds start as the single corner a and are extended to contain b.      *)
(***************************************************************************)
Extend(box, p) ==
    [sw |-> [lat |-> IF p.lat < box.sw.lat THEN p.lat ELSE box.sw.lat,
             lng |-> IF p.lng < box.sw.lng THEN p.lng ELSE box.sw.lng],
     ne |-> [lat |-> IF p.lat > box.ne.lat THEN p.lat ELSE box.ne.lat,
             lng |-> IF p.lng > box.ne.lng THEN p.lng ELSE box.ne.lng]]


\* latLngBounds that keeps corner order instead of extending.
LatLngBoundsAsGiven(a, b) == [sw |-> a, ne |-> b]

LatLngBounds(a, b) == Extend([sw |-> a, ne |-> a], b)


\* boundsData read straight off the two corners, the anchor taken for the
\* north-west one.
BoundsDataUnnormalised(a, b) ==
    [north |-> a.lat, south |-> b.lat, east |-> b.lng, west |-> a.lng]

BoundsData(a, b) ==
    LET bounds == LatLngBounds(a, b)
    IN  [north |-> bounds.ne.lat, south |-> bounds.sw.lat,
         east  |-> bounds.ne.lng, west  |-> bounds.sw.lng]

(***************************************************************************)
(* What OpenStreetMap derives from its incidents prop on every render: the *)
(* Marker elements and the map centre.  An absent property is an absent    *)
(* record field; a number is truthy unless it is 0.                        *)
(***************************************************************************)
\* incident.locations?.[0]?.[key] is truthy.
FirstCoordinate(incident, key) ==
    /\ "locations" \in DOMAIN incident
    /\ Len(incident.locations) > 0
    /\ key \in DOMAIN incident.locations[1]
    /\ incident.locations[1][key] # 0

\* ShowsMarker testing the latitude only.
ShowsMarkerLatitudeOnly(incident) ==
    FirstCoordinate(incident, "latitude")

\* The incident map callback does not return null.
ShowsMarker(incident) ==
    ~(~FirstCoordinate(incident, "latitude")
          \/ ~FirstCoordinate(incident, "longitude"))

\* The element the callback returns.  Its position reads locations[0]
\* without optional chaining: that throws a TypeError when there is no
\* first location, and Leaflet rejects a position with an undefined
\* coordinate.
Marker(incident) ==
    IF "locations" \notin DOMAIN incident \/ Len(incident.locations) = 0
    THEN [error |-> "TypeError"]
    ELSE LET first == incident.locations[1]
         IN  IF {"latitude", "longitude"} \subseteq DOMAIN first
             THEN [key |-> incident.id,
                   position |-> <<first.latitude, first.longitude>>]
             ELSE [error |-> "Invalid LatLng object"]

RECURSIVE Markers(_)
\* incidents.map(...): React renders the non-null elements, in order.
Markers(incs) ==
    IF incs = <<>> THEN <<>>
    ELSE (IF ShowsMarker(Head(incs)) THEN <<Marker(Head(incs))>> ELSE <<>>)
             \o Markers(Tail(incs))

\* The filter callback testing that the coordinates are present (not
\* undefined) instead of truthy: a coordinate of 0 counts.
IsValidIncidentDefined(inc) ==
    /\ "locations" \in DOMAIN inc
    /\ Len(inc.locations) > 0
    /\ {"latitude", "longitude"} \subseteq DOMAIN inc.locations[1]

\* The filter callback of mapCenter.
IsValidIncident(inc) ==
    FirstCoordinate(inc, "latitude") /\ FirstCoordinate(inc, "longitude")

RECURSIVE ValidIncidents(_)
ValidIncidents(incs) ==
    IF incs = <<>> THEN <<>>
    ELSE (IF IsValidIncident(Head(incs)) THEN <<Head(incs)>> ELSE <<>>)
             \o ValidIncidents(Tail(incs))

RECURSIVE SumOf(_, _)
\* validIncidents.reduce((sum, inc) => sum + inc.locations[0][key], 0)
SumOf(incs, key) ==
    IF incs = <<>> THEN 0
    ELSE Head(incs).locations[1][key] + SumOf(Tail(incs), key)

\* A quotient of two integers, kept exact as the pair it is computed from.
Quotient(sum, count) == [num |-> sum, den |-> count]

DefaultCenter == [lat |-> Quotient(20, 1), lng |-> Quotient(0, 1)]

MapCenter(incs) ==
    IF incs = <<>> THEN DefaultCenter
    ELSE LET validIncidents == ValidIncidents(incs)
         IN  IF Len(validIncidents) = 0 THEN DefaultCenter
             ELSE [lat |-> Quotient(SumOf(validIncidents, "latitude"),
                                    Len(validIncidents)),
                   lng |-> Quotient(SumOf(validIncidents, "longitude"),
                                    Len(validIncidents))]

\* setIncidents(data) and the re-render of OpenStreetMap it causes.
SetIncidents(data) ==
    /\ incidents' = data
    /\ markers' = Markers(data)
    /\ mapCenter' = MapCenter(data)

(***************************************************************************)
(* State after construction: the useState initial values of the three      *)
(* components, before any effect has run.                                  *)
(***************************************************************************)
Init ==
    /\ phase = "rendered"
    /\ incidents = <<>>
    /\ markers = Markers(<<>>)
    /\ mapCenter = MapCenter(<<>>)
    /\ loading = TRUE
    /\ selectedBounds = Null
    /\ severityFilter = None
    /\ typeFilter = None
    /\ intervals = <<>>
    /\ inflight = <<>>
    /\ response = Null
    /\ latest = "none"
    /\ selectionMode = FALSE
    /\ tempBounds = Null
    /\ isDrawing = FALSE
    /\ startPoint = Null
    /\ handlers = Null
    /\ buttonDown = FALSE
    /\ emitted = Null
    /\ emitCount = 0
    /\ dashPhase = "rendered"
    /\ dashIncidents = <<>>
    /\ dashAnalytics = Null
    /\ dashLoading = TRUE
    /\ dashError = None
    /\ dashIntervals = 0
    /\ dashPolls = <<>>
    /\ dashSettled = None

Mounted == phase = "mounted"

\* seq without its i-th element.
RemoveAt(seq, i) == SubSeq(seq, 1, i - 1) \o SubSeq(seq, i + 1, Len(seq))

(***************************************************************************)
(* fetchIncidents up to its await: the indicator is set and the request    *)
(* is handed to axios.                                                     *)
(***************************************************************************)
FetchIncidents(bounds, severity, type) ==
    /\ Len(inflight) < MaxInFlight
    /\ loading' = TRUE
    /\ inflight' = Append(inflight, BuildUrl(bounds, severity, type))
    /\ latest' = "pending"

\* The cleanup an effect run returned: clearInterval on the timer that run
\* created, which is the youngest one.
ClearInterval(timers) ==
    IF timers = <<>> THEN <<>> ELSE SubSeq(timers, 1, Len(timers) - 1)

(***************************************************************************)
(* The fetch effect of MapView, run after a render in which one of its     *)
(* dependencies changed: the previous run's cleanup clears its interval,   *)
(* then the effect fetches and sets a new interval whose callback closes   *)
(* over the values of that render.                                         *)
(***************************************************************************)
\* The fetch effect returning no cleanup: a re-run leaves the previous
\* run's interval alive next to the new one.
FetchEffectWithoutCleanup(bounds, severity, type) ==
    /\ FetchIncidents(bounds, severity, type)
    /\ intervals' = Append(intervals,
                           [bounds |-> bounds, severity |-> severity,
                            type |-> type])

FetchEffect(bounds, severity, type) ==
    /\ FetchIncidents(bounds, severity, type)
    /\ intervals' = Append(ClearInterval(intervals),
                           [bounds |-> bounds, severity |-> severity,
                            type |-> type])

\* SelectionEffect whose mode-off branch forgets setIsDrawing(false).
SelectionEffectKeepsDrawing(sm, drawing, rect, anchor) ==
    IF ~sm
    THEN /\ tempBounds' = Null
         /\ isDrawing' = drawing
         /\ startPoint' = Null
         /\ handlers' = Null
    ELSE /\ tempBounds' = rect
         /\ isDrawing' = drawing
         /\ startPoint' = anchor
         /\ handlers' = [selectionMode |-> sm, isDrawing |-> drawing]

(***************************************************************************)
(* The effect of MapSelectionTool, run after a render with selection mode  *)
(* sm, drag flag drawing, rectangle rect and anchor anchor.  With the mode *)
(* off it resets the drag state and registers nothing; with it on it       *)
(* registers listeners that close over sm and drawing.                     *)
(***************************************************************************)
SelectionEffect(sm, drawing, rect, anchor) ==
    IF ~sm
    THEN /\ tempBounds' = Null
         /\ isDrawing' = FALSE
         /\ startPoint' = Null
         /\ handlers' = Null
    ELSE /\ tempBounds' = rect
         /\ isDrawing' = drawing
         /\ startPoint' = anchor
         /\ handlers' = [selectionMode |-> sm, isDrawing |-> drawing]

\* First effects after the first render.
Mount ==
    /\ phase = "rendered"
    /\ phase' = "mounted"
    /\ FetchEffect(selectedBounds, severityFilter, typeFilter)
    /\ selectionMode' = selectionMode
    /\ SelectionEffect(selectionMode, isDrawing, tempBounds, startPoint)
    /\ UNCHANGED <<incidents, markers, mapCenter, selectedBounds, severityFilter, typeFilter,
                   buttonDown, emitCount>>
    /\ response' = Null
    /\ emitted' = Null
    /\ UNCHANGED dashVars


\* Unmount with an effect that returns no cleanup: the interval survives.
UnmountKeepsInterval ==
    /\ Mounted
    /\ phase' = "unmounted"
    /\ handlers' = Null
    /\ response' = Null
    /\ emitted' = Null
    /\ UNCHANGED <<incidents, markers, mapCenter, loading, selectedBounds, severityFilter,
                   typeFilter, intervals, inflight, latest, selectionMode,
                   tempBounds, isDrawing, startPoint, buttonDown, emitCount>>
    /\ UNCHANGED dashVars

\* The view leaves the page: every effect's cleanup runs.
Unmount ==
    /\ Mounted
    /\ phase' = "unmounted"
    /\ intervals' = ClearInterval(intervals)
    /\ handlers' = Null
    /\ UNCHANGED <<incidents, markers, mapCenter, loading, selectedBounds, severityFilter,
                   typeFilter, inflight, latest, selectionMode,
                   tempBounds, isDrawing, startPoint, buttonDown, emitCount>>
    /\ response' = Null
    /\ emitted' = Null
    /\ UNCHANGED dashVars

\* The callback of an interval created once, on mount, by an effect
\* without dependencies: it fetches with the filter values of the first
\* render.
TimerTickInitialFilters ==
    /\ intervals # <<>>
    /\ FetchIncidents(Null, None, None)
    /\ UNCHANGED <<phase, incidents, markers, mapCenter, selectedBounds,
                   severityFilter, typeFilter, intervals, buttonDown,
                   emitCount>>
    /\ UNCHANGED toolVars
    /\ response' = Null
    /\ emitted' = Null
    /\ UNCHANGED dashVars

\* The callback of a live interval fires.
TimerTick ==
    /\ \E k \in 1..Len(intervals) :
           FetchIncidents(intervals[k].bounds, intervals[k].severity,
                          intervals[k].type)
    /\ UNCHANGED <<phase, incidents, markers, mapCenter, selectedBounds, severityFilter,
                   typeFilter, intervals, buttonDown, emitCount>>
    /\ UNCHANGED toolVars
    /\ response' = Null
    /\ emitted' = Null
    /\ UNCHANGED dashVars

\* The Refresh button without its disabled attribute.
RefreshWhileLoading ==
    /\ Mounted
    /\ FetchIncidents(selectedBounds, severityFilter, typeFilter)
    /\ UNCHANGED <<phase, incidents, markers, mapCenter, selectedBounds,
                   severityFilter, typeFilter, intervals, buttonDown,
                   emitCount>>
    /\ UNCHANGED toolVars
    /\ response' = Null
    /\ emitted' = Null
    /\ UNCHANGED dashVars

\* The Refresh button, disabled while loading.
Refresh ==
    /\ Mounted
    /\ ~loading
    /\ FetchIncidents(selectedBounds, severityFilter, typeFilter)
    /\ UNCHANGED <<phase, incidents, markers, mapCenter, selectedBounds, severityFilter,
                   typeFilter, intervals, buttonDown, emitCount>>
    /\ UNCHANGED toolVars
    /\ response' = Null
    /\ emitted' = Null
    /\ UNCHANGED dashVars


\* FetchSucceeded with a sequencing token: only the answer to the request
\* issued last is displayed.
FetchSucceededLatestOnly(i) ==
    /\ i \in 1..Len(inflight)
    /\ response' = [status |-> "ok", data |-> ServerResponse(inflight[i])]
    /\ SetIncidents(IF i = Len(inflight) THEN response'.data ELSE incidents)
    /\ loading' = FALSE
    /\ inflight' = RemoveAt(inflight, i)
    /\ latest' = IF i = Len(inflight) /\ latest = "pending"
                 THEN "ok" ELSE latest
    /\ emitted' = Null
    /\ UNCHANGED <<phase, selectedBounds, severityFilter, typeFilter,
                   intervals, buttonDown, emitCount>>
    /\ UNCHANGED toolVars
    /\ UNCHANGED dashVars

\* FetchSucceededWith keeping only the incidents that can be placed on the
\* map, as a client-side filter before setIncidents would.
FetchSucceededWithLocatedOnly(i, data) ==
    /\ i \in 1..Len(inflight)
    /\ response' = [status |-> "ok", data |-> data]
    /\ SetIncidents(ValidIncidents(response'.data))
    /\ loading' = FALSE
    /\ inflight' = RemoveAt(inflight, i)
    /\ latest' = IF i = Len(inflight) /\ latest = "pending"
                 THEN "ok" ELSE latest
    /\ UNCHANGED <<phase, selectedBounds, severityFilter, typeFilter,
                   intervals, buttonDown, emitCount>>
    /\ UNCHANGED toolVars
    /\ emitted' = Null
    /\ UNCHANGED dashVars

\* The i-th outstanding request is answered with a success status and the
\* body data.
FetchSucceededWith(i, data) ==
    /\ i \in 1..Len(inflight)
    /\ response' = [status |-> "ok", data |-> data]
    /\ SetIncidents(response'.data)
    /\ loading' = FALSE
    /\ inflight' = RemoveAt(inflight, i)
    /\ latest' = IF i = Len(inflight) /\ latest = "pending"
                 THEN "ok" ELSE latest
    /\ UNCHANGED <<phase, selectedBounds, severityFilter, typeFilter,
                   intervals, buttonDown, emitCount>>
    /\ UNCHANGED toolVars
    /\ emitted' = Null
    /\ UNCHANGED dashVars

\* The i-th outstanding request is answered by the backend of section 6.
FetchSucceeded(i) == FetchSucceededWith(i, ServerResponse(inflight[i]))


\* FetchFailed with a catch block that blanks the display.
FetchFailedClears(i) ==
    /\ i \in 1..Len(inflight)
    /\ response' = [status |-> "error"]
    /\ SetIncidents(<<>>)
    /\ loading' = FALSE
    /\ inflight' = RemoveAt(inflight, i)
    /\ latest' = IF i = Len(inflight) /\ latest = "pending"
                 THEN "error" ELSE latest
    /\ emitted' = Null
    /\ UNCHANGED <<phase, selectedBounds, severityFilter, typeFilter,
                   intervals, buttonDown, emitCount>>
    /\ UNCHANGED toolVars
    /\ UNCHANGED dashVars

\* FetchFailed without the finally block: the indicator is cleared on
\* success only.
FetchFailedKeepsLoading(i) ==
    /\ i \in 1..Len(inflight)
    /\ response' = [status |-> "error"]
    /\ inflight' = RemoveAt(inflight, i)
    /\ latest' = IF i = Len(inflight) /\ latest = "pending"
                 THEN "error" ELSE latest
    /\ UNCHANGED <<phase, incidents, markers, mapCenter, loading,
                   selectedBounds, severityFilter, typeFilter, intervals,
                   buttonDown, emitCount>>
    /\ UNCHANGED toolVars
    /\ emitted' = Null
    /\ UNCHANGED dashVars

\* FetchFailed with a catch block that calls fetchIncidents again with the
\* same arguments.
FetchFailedRetries(i) ==
    /\ i \in 1..Len(inflight)
    /\ response' = [status |-> "error"]
    /\ loading' = TRUE
    /\ inflight' = Append(RemoveAt(inflight, i), inflight[i])
    /\ latest' = "pending"
    /\ UNCHANGED <<phase, incidents, markers, mapCenter, selectedBounds,
                   severityFilter, typeFilter, intervals, buttonDown,
                   emitCount>>
    /\ UNCHANGED toolVars
    /\ emitted' = Null
    /\ UNCHANGED dashVars

\* The i-th outstanding request fails: transport error or error status.
FetchFailed(i) ==
    /\ i \in 1..Len(inflight)
    /\ response' = [status |-> "error"]
    /\ loading' = FALSE
    /\ inflight' = RemoveAt(inflight, i)
    /\ latest' = IF i = Len(inflight) /\ latest = "pending"
                 THEN "error" ELSE latest
    /\ UNCHANGED <<phase, incidents, markers, mapCenter, selectedBounds, severityFilter,
                   typeFilter, intervals, buttonDown, emitCount>>
    /\ UNCHANGED toolVars
    /\ emitted' = Null
    /\ UNCHANGED dashVars

\* handleSeverityFilter with a fetch effect that does not list
\* severityFilter among its dependencies: no request, same interval.
HandleSeverityFilterNoRefetch(severity) ==
    /\ Mounted
    /\ severityFilter' = IF severity = severityFilter THEN None ELSE severity
    /\ UNCHANGED <<phase, incidents, markers, mapCenter, loading,
                   selectedBounds, typeFilter, intervals, inflight, latest,
                   buttonDown, emitCount>>
    /\ UNCHANGED toolVars
    /\ response' = Null
    /\ emitted' = Null
    /\ UNCHANGED dashVars

\* MapView.handleSeverityFilter and the effect its state update re-runs.
HandleSeverityFilter(severity) ==
    /\ Mounted
    /\ severityFilter' = IF severity = severityFilter THEN None ELSE severity
    /\ FetchEffect(selectedBounds, severityFilter', typeFilter)
    /\ UNCHANGED <<phase, incidents, markers, mapCenter, selectedBounds,
                   typeFilter, buttonDown, emitCount>>
    /\ UNCHANGED toolVars
    /\ response' = Null
    /\ emitted' = Null
    /\ UNCHANGED dashVars

\* handleTypeFilter that sets the requested type without comparing it to
\* the active one: the active type cannot be toggled off.
HandleTypeFilterAlwaysSets(type) ==
    /\ Mounted
    /\ typeFilter' = type
    /\ FetchEffect(selectedBounds, severityFilter, typeFilter')
    /\ UNCHANGED <<phase, incidents, markers, mapCenter, selectedBounds,
                   severityFilter, buttonDown, emitCount>>
    /\ UNCHANGED toolVars
    /\ response' = Null
    /\ emitted' = Null
    /\ UNCHANGED dashVars

\* MapView.handleTypeFilter and the effect its state update re-runs.
HandleTypeFilter(type) ==
    /\ Mounted
    /\ typeFilter' = IF type = typeFilter THEN None ELSE type
    /\ FetchEffect(selectedBounds, severityFilter, typeFilter')
    /\ UNCHANGED <<phase, incidents, markers, mapCenter, selectedBounds,
                   severityFilter, buttonDown, emitCount>>
    /\ UNCHANGED toolVars
    /\ response' = Null
    /\ emitted' = Null
    /\ UNCHANGED dashVars

(***************************************************************************)
(* OpenStreetMap and MapSelectionTool.                                     *)
(***************************************************************************)

\* MapView.handleBoundsFilter and handleClearSelection: the bounds filter
\* becomes bounds, a new value for the fetch effect's dependency list.
\* setSelectedBounds with a fetch effect that does not list selectedBounds
\* among its dependencies: the new bounds cause no request.
SetSelectedBoundsNoRefetch(bounds) ==
    /\ selectedBounds' = bounds
    /\ UNCHANGED <<loading, inflight, latest, intervals>>

SetSelectedBounds(bounds) ==
    /\ selectedBounds' = bounds
    /\ FetchEffect(bounds, severityFilter, typeFilter)


\* handleBoundsSelect without setSelectionMode(false).
HandleBoundsSelectKeepsMode(bounds) ==
    /\ selectionMode' = selectionMode
    /\ SetSelectedBounds(bounds)

\* OpenStreetMap.handleBoundsSelect, the tool's onBoundsSelect.
HandleBoundsSelect(bounds) ==
    /\ selectionMode' = FALSE
    /\ SetSelectedBounds(bounds)

\* The "Select Area" button with a tool effect that does not reset the
\* drag state when the mode goes off: the listeners are removed but the
\* anchor, the rectangle and the drawing flag stay.
ToggleSelectionModeKeepsDrag ==
    /\ Mounted
    /\ selectionMode' = ~selectionMode
    /\ handlers' = IF selectionMode'
                   THEN [selectionMode |-> TRUE, isDrawing |-> isDrawing]
                   ELSE Null
    /\ UNCHANGED <<tempBounds, isDrawing, startPoint>>
    /\ emitCount' = IF selectionMode' THEN 0 ELSE emitCount
    /\ UNCHANGED <<phase, buttonDown>>
    /\ UNCHANGED viewVars
    /\ response' = Null
    /\ emitted' = Null
    /\ UNCHANGED dashVars

\* The "Select Area" button.
ToggleSelectionMode ==
    /\ Mounted
    /\ selectionMode' = ~selectionMode
    /\ SelectionEffect(selectionMode', isDrawing, tempBounds, startPoint)
    /\ emitCount' = IF selectionMode' THEN 0 ELSE emitCount
    /\ UNCHANGED <<phase, buttonDown>>
    /\ UNCHANGED viewVars
    /\ response' = Null
    /\ emitted' = Null
    /\ UNCHANGED dashVars


\* handleClearSelection that resets every filter, not only the bounds.
HandleClearSelectionResetsFilters ==
    /\ Mounted
    /\ selectedBounds # Null
    /\ selectionMode' = FALSE
    /\ selectedBounds' = Null
    /\ severityFilter' = None
    /\ typeFilter' = None
    /\ FetchEffect(Null, None, None)
    /\ SelectionEffect(selectionMode', isDrawing, tempBounds, startPoint)
    /\ UNCHANGED <<phase, incidents, markers, mapCenter, buttonDown, emitCount>>
    /\ response' = Null
    /\ emitted' = Null
    /\ UNCHANGED dashVars

\* handleClearSelection without setSelectionMode(false): an armed selection
\* mode survives the clear.
HandleClearSelectionKeepsMode ==
    /\ Mounted
    /\ selectedBounds # Null
    /\ selectionMode' = selectionMode
    /\ SetSelectedBounds(Null)
    /\ SelectionEffect(selectionMode', isDrawing, tempBounds, startPoint)
    /\ UNCHANGED <<phase, incidents, markers, mapCenter, severityFilter,
                   typeFilter, buttonDown, emitCount>>
    /\ response' = Null
    /\ emitted' = Null
    /\ UNCHANGED dashVars

\* The "Clear Filter" button, rendered while a bounds filter is active.
HandleClearSelection ==
    /\ Mounted
    /\ selectedBounds # Null
    /\ selectionMode' = FALSE
    /\ SetSelectedBounds(Null)
    /\ SelectionEffect(selectionMode', isDrawing, tempBounds, startPoint)
    /\ UNCHANGED <<phase, incidents, markers, mapCenter, severityFilter,
                   typeFilter, buttonDown, emitCount>>
    /\ response' = Null
    /\ emitted' = Null
    /\ UNCHANGED dashVars

\* MouseDown with the map listeners registered whatever the mode and
\* handleMouseDown lacking its selectionMode test: every press on the map
\* starts a drag.
MouseDownAlwaysListens(p) ==
    /\ Mounted
    /\ ~buttonDown
    /\ buttonDown' = TRUE
    /\ selectionMode' = selectionMode
    /\ tempBounds' = <<p, p>>
    /\ isDrawing' = TRUE
    /\ startPoint' = p
    /\ handlers' = [selectionMode |-> TRUE, isDrawing |-> TRUE]
    /\ UNCHANGED <<phase, emitCount>>
    /\ UNCHANGED viewVars
    /\ response' = Null
    /\ emitted' = Null
    /\ UNCHANGED dashVars

\* The button is pressed over the map at p.
MouseDown(p) ==
    /\ Mounted
    /\ ~buttonDown
    /\ buttonDown' = TRUE
    /\ selectionMode' = selectionMode
    /\ IF handlers # Null /\ handlers.selectionMode
       THEN SelectionEffect(selectionMode, TRUE, <<p, p>>, p)
       ELSE UNCHANGED <<tempBounds, isDrawing, startPoint, handlers>>
    /\ UNCHANGED <<phase, emitCount>>
    /\ UNCHANGED viewVars
    /\ response' = Null
    /\ emitted' = Null
    /\ UNCHANGED dashVars

\* handleMouseMove that also moves the anchor to the pointer.
MouseMoveMovesAnchor(p) ==
    /\ Mounted
    /\ tempBounds' = IF /\ handlers # Null
                        /\ handlers.isDrawing
                        /\ startPoint # Null
                     THEN <<startPoint, p>>
                     ELSE tempBounds
    /\ startPoint' = IF /\ handlers # Null
                        /\ handlers.isDrawing
                        /\ startPoint # Null
                     THEN p
                     ELSE startPoint
    /\ UNCHANGED <<phase, selectionMode, isDrawing, handlers, buttonDown,
                   emitCount>>
    /\ UNCHANGED viewVars
    /\ response' = Null
    /\ emitted' = Null
    /\ UNCHANGED dashVars

\* The pointer moves over the map to p.
MouseMove(p) ==
    /\ Mounted
    /\ tempBounds' = IF /\ handlers # Null
                        /\ handlers.isDrawing
                        /\ startPoint # Null
                     THEN <<startPoint, p>>
                     ELSE tempBounds
    /\ UNCHANGED <<phase, selectionMode, isDrawing, startPoint, handlers,
                   buttonDown, emitCount>>
    /\ UNCHANGED viewVars
    /\ response' = Null
    /\ emitted' = Null
    /\ UNCHANGED dashVars

\* handleMouseUp without its isDrawing / startPoint test: every release on
\* the map while the listeners are registered emits a box, anchored at the
\* release point when there is no anchor.
MouseUpUnguarded(p) ==
    /\ Mounted
    /\ buttonDown
    /\ buttonDown' = FALSE
    /\ IF handlers # Null
       THEN LET anchor == IF startPoint # Null THEN startPoint ELSE p
                boundsData == BoundsData(anchor, p)
            IN  /\ emitted' = [anchor  |-> anchor,
                               release |-> p,
                               bounds  |-> boundsData]
                /\ emitCount' = IF emitCount < 2 THEN emitCount + 1
                                                 ELSE emitCount
                /\ HandleBoundsSelect(boundsData)
                /\ SelectionEffect(selectionMode', FALSE, Null, Null)
                /\ UNCHANGED <<incidents, markers, mapCenter, severityFilter,
                               typeFilter>>
       ELSE /\ emitted' = Null
            /\ UNCHANGED emitCount
            /\ UNCHANGED toolVars
            /\ UNCHANGED viewVars
    /\ UNCHANGED phase
    /\ response' = Null
    /\ UNCHANGED dashVars

\* The button is released over the map at p.
MouseUp(p) ==
    /\ Mounted
    /\ buttonDown
    /\ buttonDown' = FALSE
    /\ IF handlers # Null /\ handlers.isDrawing /\ startPoint # Null
       THEN LET boundsData == BoundsData(startPoint, p)
            IN  /\ emitted' = [anchor  |-> startPoint,
                               release |-> p,
                               bounds  |-> boundsData]
                /\ emitCount' = IF emitCount < 2 THEN emitCount + 1
                                                 ELSE emitCount
                /\ HandleBoundsSelect(boundsData)
                /\ SelectionEffect(selectionMode', FALSE, Null, Null)
                /\ UNCHANGED <<incidents, markers, mapCenter, severityFilter,
                               typeFilter>>
       ELSE /\ emitted' = Null
            /\ UNCHANGED emitCount
            /\ UNCHANGED toolVars
            /\ UNCHANGED viewVars
    /\ UNCHANGED phase
    /\ response' = Null
    /\ UNCHANGED dashVars

\* The button is pressed outside the map container.
MouseDownOutside ==
    /\ Mounted
    /\ ~buttonDown
    /\ buttonDown' = TRUE
    /\ UNCHANGED <<phase, emitCount>>
    /\ UNCHANGED viewVars
    /\ UNCHANGED toolVars
    /\ response' = Null
    /\ emitted' = Null
    /\ UNCHANGED dashVars

\* The button is released outside the map container: the map, the only
\* place the tool listens, fires no mouseup.
MouseUpOutside ==
    /\ Mounted
    /\ buttonDown
    /\ buttonDown' = FALSE
    /\ UNCHANGED <<phase, emitCount>>
    /\ UNCHANGED viewVars
    /\ UNCHANGED toolVars
    /\ response' = Null
    /\ emitted' = Null
    /\ UNCHANGED dashVars
Next ==
    \/ Mount
    \/ Unmount
    \/ TimerTick
    \/ Refresh
    \/ \E i \in 1..MaxInFlight : FetchSucceeded(i)
    \/ \E i \in 1..MaxInFlight : FetchFailed(i)
    \/ \E severity \in Severities : HandleSeverityFilter(severity)
    \/ \E type \in Types : HandleTypeFilter(type)
    \/ ToggleSelectionMode
    \/ HandleClearSelection
    \/ \E p \in Points : MouseDown(p)
    \/ \E p \in Points : MouseMove(p)
    \/ \E p \in Points : MouseUp(p)
    \/ MouseDownOutside
    \/ MouseUpOutside

Spec == Init /\ [][Next]_vars

(***************************************************************************)
(* The view against a backend that may answer any request with any body:   *)
(* incident records with and without a usable first location, in any       *)
(* order.                                                                  *)
(***************************************************************************)
MaxBodyLen == 2

IncidentShapes ==
    { [id |-> "1", locations |-> << [latitude |-> 40, longitude |-> -74] >>],
      [id |-> "2", locations |-> << [latitude |-> 10, longitude |-> 10] >>],
      [id |-> "3"],
      [id |-> "4", locations |-> << >>],
      [id |-> "5", locations |-> << [longitude |-> 10] >>],
      [id |-> "6", locations |-> << [latitude |-> 10] >>],
      [id |-> "7", locations |-> << [latitude |-> 0, longitude |-> 10] >>] }

ResponseBodies == UNION { [1..n -> IncidentShapes] : n \in 0..MaxBodyLen }

NextRender ==
    \/ Mount
    \/ TimerTick
    \/ Refresh
    \/ \E i \in 1..MaxInFlight : \E data \in ResponseBodies :
           FetchSucceededWith(i, data)
    \/ \E i \in 1..MaxInFlight : FetchFailed(i)

SpecRender == Init /\ [][NextRender]_vars

(***************************************************************************)
(* The view with every severity and incident_type control in use, bounds   *)
(* selection included, and a backend that always answers.                  *)
(***************************************************************************)
FilterSeverities == {"critical", "low"}

FilterTypes == {"flood", "fire"}

NextFilters ==
    \/ Mount
    \/ \E i \in 1..MaxInFlight : FetchSucceeded(i)
    \/ \E severity \in FilterSeverities : HandleSeverityFilter(severity)
    \/ \E type \in FilterTypes : HandleTypeFilter(type)
    \/ ToggleSelectionMode
    \/ \E p \in Points : MouseDown(p)
    \/ \E p \in Points : MouseUp(p)

SpecFilters == Init /\ [][NextFilters]_vars

(***************************************************************************)
(* The selection tool on its own: the two buttons of OpenStreetMap, the    *)
(* pointer events, and the view reduced to mounting and to receiving the   *)
(* answers of the requests the selections cause.                           *)
(***************************************************************************)
NextTool ==
    \/ Mount
    \/ \E i \in 1..MaxInFlight : FetchSucceeded(i)
    \/ ToggleSelectionMode
    \/ HandleClearSelection
    \/ \E p \in Points : MouseDown(p)
    \/ \E p \in Points : MouseMove(p)
    \/ \E p \in Points : MouseUp(p)
    \/ MouseDownOutside
    \/ MouseUpOutside

SpecTool == Init /\ [][NextTool]_vars

(***************************************************************************)
(* Dashboard (pages/Dashboard.jsx): one effect without dependencies that   *)
(* calls fetchData and repeats it on an interval.  A fetchData call awaits *)
(* Promise.all of two requests: it goes on when both have succeeded and    *)
(* goes to its catch block as soon as one of them fails.                   *)
(***************************************************************************)
MaxPolls == 2

DashLimit == 10

\* The bodies /analytics/summary may answer with, by the field the stats
\* read.
AnalyticsBodies == {[active_alerts |-> 1], [active_alerts |-> 2]}

\* The fallback of the catch block, by the fields that identify it.
MockIncidents ==
    << [id |-> "1", severity |-> "critical", incident_type |-> "flood",
        source |-> "NYC Emergency Management"] >>

\* The body of /incidents?limit=10.
DashServerIncidents ==
    ServerResponse([path |-> "/incidents", params |-> [limit |-> DashLimit]])

DashMounted == dashPhase = "mounted"

\* fetchData up to its await.
FetchData ==
    /\ Len(dashPolls) < MaxPolls
    /\ dashLoading' = TRUE
    /\ dashError' = None
    /\ dashPolls' = Append(dashPolls,
                           [incidentsRes |-> Null, analyticsRes |-> Null])
    /\ dashSettled' = None
    /\ UNCHANGED <<dashIncidents, dashAnalytics>>

\* The effect of the first render.
DashMount ==
    /\ dashPhase = "rendered"
    /\ dashPhase' = "mounted"
    /\ FetchData
    /\ dashIntervals' = dashIntervals + 1
    /\ UNCHANGED mapVars

\* The interval fires.
DashTick ==
    /\ dashIntervals > 0
    /\ FetchData
    /\ UNCHANGED <<dashPhase, dashIntervals>>
    /\ UNCHANGED mapVars

\* The i-th fetchData call has both responses: the rest of its try block,
\* then its finally block.  React drops the updates of an unmounted
\* component.
FetchDataResolved(i, incidentsRes, analyticsRes) ==
    /\ dashPolls' = RemoveAt(dashPolls, i)
    /\ dashSettled' = "ok"
    /\ IF DashMounted
       THEN /\ dashIncidents' = incidentsRes.data
            /\ dashAnalytics' = analyticsRes.data
            /\ dashLoading' = FALSE
       ELSE UNCHANGED <<dashIncidents, dashAnalytics, dashLoading>>
    /\ UNCHANGED dashError

\* The /incidents request of the i-th fetchData call succeeds.
DashIncidentsArrive(i) ==
    /\ i \in 1..Len(dashPolls)
    /\ dashPolls[i].incidentsRes = Null
    /\ LET res == [data |-> DashServerIncidents]
       IN  IF dashPolls[i].analyticsRes # Null
           THEN FetchDataResolved(i, res, dashPolls[i].analyticsRes)
           ELSE /\ dashPolls' = [dashPolls EXCEPT ![i].incidentsRes = res]
                /\ dashSettled' = None
                /\ UNCHANGED <<dashIncidents, dashAnalytics, dashLoading,
                               dashError>>
    /\ UNCHANGED <<dashPhase, dashIntervals>>
    /\ UNCHANGED mapVars

\* The /analytics/summary request of the i-th fetchData call succeeds.
DashAnalyticsArrive(i, body) ==
    /\ i \in 1..Len(dashPolls)
    /\ dashPolls[i].analyticsRes = Null
    /\ LET res == [data |-> body]
       IN  IF dashPolls[i].incidentsRes # Null
           THEN FetchDataResolved(i, dashPolls[i].incidentsRes, res)
           ELSE /\ dashPolls' = [dashPolls EXCEPT ![i].analyticsRes = res]
                /\ dashSettled' = None
                /\ UNCHANGED <<dashIncidents, dashAnalytics, dashLoading,
                               dashError>>
    /\ UNCHANGED <<dashPhase, dashIntervals>>
    /\ UNCHANGED mapVars

\* One of the two requests of the i-th fetchData call fails while the call
\* is awaiting: Promise.all rejects, the catch block and the finally block
\* run, and whatever the other request does is ignored.
DashRequestFails(i) ==
    /\ i \in 1..Len(dashPolls)
    /\ dashPolls' = RemoveAt(dashPolls, i)
    /\ dashSettled' = "error"
    /\ IF DashMounted
       THEN /\ dashError' = "Network Error"
            /\ dashIncidents' = MockIncidents
            /\ dashLoading' = FALSE
       ELSE UNCHANGED <<dashError, dashIncidents, dashLoading>>
    /\ UNCHANGED <<dashAnalytics, dashPhase, dashIntervals>>
    /\ UNCHANGED mapVars

\* The Dashboard leaves the page: the effect's cleanup clears its interval.
DashUnmount ==
    /\ DashMounted
    /\ dashPhase' = "unmounted"
    /\ dashIntervals' = dashIntervals - 1
    /\ dashSettled' = None
    /\ UNCHANGED <<dashIncidents, dashAnalytics, dashLoading, dashError,
                   dashPolls>>
    /\ UNCHANGED mapVars

NextDashboard ==
    \/ DashMount
    \/ DashTick
    \/ \E i \in 1..MaxPolls : DashIncidentsArrive(i)
    \/ \E i \in 1..MaxPolls : \E body \in AnalyticsBodies :
           DashAnalyticsArrive(i, body)
    \/ \E i \in 1..MaxPolls : DashRequestFails(i)
    \/ DashUnmount

SpecDashboard == Init /\ [][NextDashboard]_vars

\* Some outstanding request is answered.
Completion ==
    \E i \in 1..MaxInFlight : FetchSucceeded(i) \/ FetchFailed(i)

(***************************************************************************)
(* The view's request life cycle on its own: mount, the timer, the Refresh *)
(* button, the severity and incident_type handlers and the completion of   *)
(* requests, under two progress conditions: React runs the effects of the  *)
(* first render, and an outstanding request is eventually answered, one    *)
(* way or the other.                                                       *)
(***************************************************************************)
NextLoading ==
    \/ Mount
    \/ Unmount
    \/ TimerTick
    \/ Refresh
    \/ \E i \in 1..MaxInFlight : FetchSucceeded(i)
    \/ \E i \in 1..MaxInFlight : FetchFailed(i)
    \/ \E severity \in FilterSeverities : HandleSeverityFilter(severity)
    \/ \E type \in FilterTypes : HandleTypeFilter(type)

SpecLive ==
    Init /\ [][NextLoading]_vars /\ WF_vars(Mount) /\ WF_vars(Completion)

(***************************************************************************)
(* Properties.                                                             *)
(***************************************************************************)

\* The query the view's current filter state asks for.
CurrentUrl == BuildUrl(selectedBounds, severityFilter, typeFilter)

Failed(r) == r # Null /\ r.status = "error"

Succeeded(r) == r # Null /\ r.status = "ok"

\* C1: a step in which a request fails (transport error or error status)
\* leaves the displayed incident collection exactly as it was and clears
\* the loading indicator.
C1_FailedFetchKeepsIncidents ==
    [][Failed(response') => (incidents' = incidents /\ loading' = FALSE)]_vars

\* C1 witness: a request has just failed while incidents were on display,
\* and they still are.
C1_Witness ==
    /\ Failed(response)
    /\ incidents # <<>>
    /\ ~loading

\* C2: whenever no request is outstanding and the request issued last
\* succeeded, the displayed collection is the server's answer to the query
\* of the current filter state.
C2_DisplayedMatchesCurrentFilters ==
    (inflight = <<>> /\ latest = "ok") => incidents = ServerResponse(CurrentUrl)

\* C3: there is no cancellation or sequencing.  Whichever outstanding
\* request is answered successfully, whatever its place in the order of
\* issue, the displayed collection becomes that answer, and nothing else
\* changes the displayed collection: what is displayed is always the body
\* of the successful response that arrived last.
C3_LastArrivalWins ==
    [][/\ \A i \in 1..Len(inflight) :
              (Succeeded(response') /\ inflight' = RemoveAt(inflight, i))
                  => incidents' = ServerResponse(inflight[i])
       /\ incidents' # incidents => Succeeded(response')]_vars

\* C3 witness: fetches overlapped, the one issued first was answered last,
\* and its answer, not the answer to the later request, is displayed.
C3_Witness ==
    /\ Succeeded(response)
    /\ inflight = <<>>
    /\ latest = "ok"
    /\ incidents = response.data
    /\ incidents # ServerResponse(CurrentUrl)

\* C4: once the view is unmounted its interval is gone and no step issues
\* a request.
C4_NoFetchAfterUnmount ==
    [][phase = "unmounted" =>
           (intervals' = <<>> /\ Len(inflight') <= Len(inflight))]_vars

\* C4 witness: the view is unmounted and a request could still be issued
\* were the timer alive.
C4_Witness ==
    /\ phase = "unmounted"
    /\ intervals = <<>>
    /\ Len(inflight) < MaxInFlight

\* C5: once the pointer button is up, the tool is not drawing and holds no
\* anchor, wherever the button was released.
C5_DragEndsOnPointerUp ==
    ~buttonDown => (~isDrawing /\ startPoint = Null)

\* C6: selection is one-shot.  An emission leaves selection mode off, and
\* between two activations of selection mode by the user at most one
\* onBoundsSelect call is made.
C6_OneShotSelection ==
    /\ emitCount <= 1
    /\ emitted # Null => ~selectionMode

\* C6 witness: bounds were emitted and a further pointer-down on the map
\* followed while selection mode stayed off.
C6_Witness ==
    /\ emitCount = 1
    /\ ~selectionMode
    /\ emitted = Null
    /\ buttonDown
    /\ selectedBounds # Null

Max(x, y) == IF x >= y THEN x ELSE y

Min(x, y) == IF x <= y THEN x ELSE y

\* C7: the bounds emitted at drag end are the envelope of the anchor a and
\* the release coordinate b: north and south the larger and the smaller
\* latitude, east and west the larger and the smaller longitude.
C7_EmittedBoundsAreEnvelope ==
    emitted # Null =>
        LET a == emitted.anchor
            b == emitted.release
        IN  /\ emitted.bounds.north = Max(a.lat, b.lat)
            /\ emitted.bounds.south = Min(a.lat, b.lat)
            /\ emitted.bounds.east  = Max(a.lng, b.lng)
            /\ emitted.bounds.west  = Min(a.lng, b.lng)

\* C7 witness: a drag that started at the south-east corner and ended at
\* the north-west one has emitted its bounds.
C7_Witness ==
    /\ emitted # Null
    /\ emitted.anchor.lat < emitted.release.lat
    /\ emitted.anchor.lng > emitted.release.lng
    /\ selectedBounds = emitted.bounds

\* C8: every emitted box has north >= south and east >= west, and is the
\* box the opposite drag, from the release coordinate to the anchor, gives.
C8_EmittedBoundsNormalised ==
    emitted # Null =>
        /\ emitted.bounds.north >= emitted.bounds.south
        /\ emitted.bounds.east >= emitted.bounds.west
        /\ emitted.bounds = BoundsData(emitted.release, emitted.anchor)

\* C8 witness: bounds were emitted by a drag between two different
\* corners, so the opposite drag is a different gesture.
C8_Witness ==
    /\ emitted # Null
    /\ emitted.anchor # emitted.release
    /\ emitted.bounds.north > emitted.bounds.south
    /\ emitted.bounds.east > emitted.bounds.west

BoundsKeys == {"north", "south", "east", "west"}

\* The url carries a severity constraint iff severity is set and an
\* incident_type constraint iff type is set, each with the active value.
CarriesFilters(url, severity, type) ==
    /\ HasParam(url, "severity") <=> severity # None
    /\ HasParam(url, "severity") => url.params.severity = severity
    /\ HasParam(url, "incident_type") <=> type # None
    /\ HasParam(url, "incident_type") => url.params.incident_type = type

\* The url is the unscoped listing query: fixed limit 200, no bounds.
IsUnscoped(url) ==
    /\ url.path = "/incidents"
    /\ HasParam(url, "limit")
    /\ url.params.limit = 200
    /\ BoundsKeys \cap DOMAIN url.params = {}

\* The url is the bounds-scoped query for exactly the box bounds.
IsScopedTo(url, bounds) ==
    /\ url.path = "/incidents/by-bounds"
    /\ BoundsKeys \subseteq DOMAIN url.params
    /\ ~HasParam(url, "limit")
    /\ url.params.north = bounds.north
    /\ url.params.south = bounds.south
    /\ url.params.east = bounds.east
    /\ url.params.west = bounds.west

\* C9: the request issued last, while it is outstanding, is the one the
\* filter state determines: the by-bounds query with the box's four sides
\* when bounds are set, the listing query with limit 200 and no bounds
\* otherwise, and in both cases a severity and an incident_type constraint
\* exactly when that filter is set.
C9_RequestDeterminedByFilters ==
    latest = "pending" =>
        LET url == inflight[Len(inflight)]
        IN  /\ IF selectedBounds # Null
               THEN IsScopedTo(url, selectedBounds)
               ELSE IsUnscoped(url)
            /\ CarriesFilters(url, severityFilter, typeFilter)

\* C9 witness: a bounds-scoped request carrying both filters is
\* outstanding next to an unscoped one carrying neither.
C9_Witness ==
    /\ latest = "pending"
    /\ Len(inflight) = 2
    /\ IsUnscoped(inflight[1])
    /\ CarriesFilters(inflight[1], None, None)
    /\ selectedBounds # Null
    /\ severityFilter # None
    /\ typeFilter # None
    /\ IsScopedTo(inflight[2], selectedBounds)

\* C10: the step that clears an active bounds filter leaves severity and
\* incident_type as they were and issues the unscoped listing query
\* carrying exactly those filters.
C10_ClearKeepsOtherFilters ==
    [][(selectedBounds # Null /\ selectedBounds' = Null) =>
           /\ severityFilter' = severityFilter
           /\ typeFilter' = typeFilter
           /\ Len(inflight') = Len(inflight) + 1
           /\ IsUnscoped(inflight'[Len(inflight')])
           /\ CarriesFilters(inflight'[Len(inflight')],
                             severityFilter, typeFilter)]_vars

\* C10 witness: a request scoped to bounds and carrying both filters was
\* issued, and the next request issued, after the clear, is unscoped and
\* still carries both.
C10_Witness ==
    /\ selectedBounds = Null
    /\ latest = "pending"
    /\ Len(inflight) = 2
    /\ inflight[1].path = "/incidents/by-bounds"
    /\ HasParam(inflight[1], "severity")
    /\ HasParam(inflight[1], "incident_type")
    /\ IsUnscoped(inflight[2])
    /\ HasParam(inflight[2], "severity")
    /\ HasParam(inflight[2], "incident_type")

\* C11: the step in which the tool emits bounds B makes B the view's bounds
\* filter and, in that same step, issues the by-bounds request for B that
\* carries the severity and incident_type filters in force; and when the
\* request issued last for an active bounds filter succeeds while it is the
\* only one outstanding, the displayed incidents are exactly its answer.
C11_EmittedBoundsFilterTheView ==
    [][/\ emitted' # Null =>
              /\ selectedBounds' = emitted'.bounds
              /\ severityFilter' = severityFilter
              /\ typeFilter' = typeFilter
              /\ inflight' = Append(inflight, inflight'[Len(inflight')])
              /\ IsScopedTo(inflight'[Len(inflight')], emitted'.bounds)
              /\ CarriesFilters(inflight'[Len(inflight')],
                                severityFilter, typeFilter)
              /\ latest' = "pending"
       /\ (/\ selectedBounds # Null
           /\ latest = "pending"
           /\ Len(inflight) = 1
           /\ Succeeded(response')) =>
              /\ IsScopedTo(inflight[1], selectedBounds)
              /\ incidents' = ServerResponse(inflight[1])
              /\ inflight' = <<>>]_vars

\* C11 witness: bounds were emitted once, the request scoped to them and
\* carrying the active severity has just succeeded with nothing else
\* outstanding, and its non-empty answer is on display.
C11_Witness ==
    /\ emitCount = 1
    /\ selectedBounds # Null
    /\ severityFilter # None
    /\ Succeeded(response)
    /\ latest = "ok"
    /\ inflight = <<>>
    /\ incidents = ServerResponse(CurrentUrl)
    /\ incidents # <<>>

\* C12: whenever at least one request is outstanding the loading indicator
\* is on, also when requests overlap and one of them has completed.
C12_LoadingWhileOutstanding ==
    inflight # <<>> => loading

\* C13: the view owns exactly one live interval while it is mounted and
\* none before its first effect or after it is unmounted; the one alive
\* is the one the last run of the fetch effect created, so its callback
\* closes over the filter state of that run.
C13_OneLiveInterval ==
    /\ Len(intervals) = (IF Mounted THEN 1 ELSE 0)
    /\ Mounted =>
           intervals[1] = [bounds |-> selectedBounds,
                           severity |-> severityFilter, type |-> typeFilter]

\* C13 witness: the fetch effect has re-run at least twice since mount
\* (bounds and severity were both set) and a single interval is alive.
C13_Witness ==
    /\ Mounted
    /\ selectedBounds # Null
    /\ severityFilter # None
    /\ Len(intervals) = 1
    /\ intervals[1].bounds = selectedBounds
    /\ intervals[1].severity = severityFilter

\* The view's filter state differs between the two states of a step.
FiltersChange ==
    \/ selectedBounds' # selectedBounds
    \/ severityFilter' # severityFilter
    \/ typeFilter' # typeFilter

\* C14: the mounting step and every step that changes the bounds, severity
\* or incident_type filter issue, in that step, the request for the new
\* filter state; and a tick of the periodic timer leaves the filters alone
\* and issues again the request for the filter state in force.
C14_RefreshPolicy ==
    [][/\ (phase = "rendered" /\ phase' = "mounted") =>
              inflight' = Append(inflight, CurrentUrl')
       /\ FiltersChange => inflight' = Append(inflight, CurrentUrl')
       /\ TimerTick =>
              (~FiltersChange /\ inflight' = Append(inflight, CurrentUrl))]_vars

\* C14 witness: with a severity filter set, the request for the current
\* filter state is outstanding twice: once from the filter change and once
\* reissued with the filters unchanged.
C14_Witness ==
    /\ Mounted
    /\ severityFilter # None
    /\ loading
    /\ inflight = <<CurrentUrl, CurrentUrl>>

\* C15: the indicator goes from off to on only in a step of manual refresh,
\* timer tick or filter change, a new selection of bounds equal to the
\* active ones included (the mounting step finds it on already);
\* every step in which a request completes, successfully or not, turns it
\* off; once the view's first effect has run and no request is
\* outstanding it is off; and, every outstanding request being
\* eventually answered, whenever it is on it is eventually off again.
C15_LoadingReturnsToIdle ==
    /\ [][/\ (~loading /\ loading') =>
                 /\ Refresh \/ TimerTick \/ FiltersChange \/ emitted' # Null
                 /\ Len(inflight') = Len(inflight) + 1
          /\ (Succeeded(response') \/ Failed(response')) => ~loading']_vars
    /\ []((phase # "rendered" /\ inflight = <<>>) => ~loading)
    /\ (loading ~> ~loading)

\* C15 witness: a request has just failed with nothing else outstanding and
\* the view is idle again.
C15_Witness ==
    /\ Mounted
    /\ Failed(response)
    /\ inflight = <<>>
    /\ ~loading

\* C16: a step in which a request fails issues nothing: the outstanding
\* requests after it are those before it less the failed one, and the
\* timer and the filters are as they were.  A step that does issue a
\* request is the mounting step, a timer tick, a manual refresh or a
\* change or new selection of a filter.
C16_NoAutomaticRetry ==
    [][/\ Failed(response') =>
              /\ \E i \in 1..Len(inflight) : inflight' = RemoveAt(inflight, i)
              /\ intervals' = intervals
              /\ ~FiltersChange
       /\ Len(inflight') > Len(inflight) =>
              \/ phase = "rendered"
              \/ TimerTick
              \/ Refresh
              \/ FiltersChange
              \/ emitted' # Null]_vars

\* C16 witness: the request issued last has just failed, the view is idle
\* with nothing outstanding and its timer is still alive.
C16_Witness ==
    /\ Failed(response)
    /\ latest = "error"
    /\ inflight = <<>>
    /\ ~loading
    /\ Len(intervals) = 1
    /\ incidents # <<>>

\* C17: right after a request succeeds the displayed collection is the
\* response body itself: the same records in the same order, none dropped,
\* none kept from the previous collection.
C17_DisplayIsResponseBody ==
    Succeeded(response) =>
        /\ Len(incidents) = Len(response.data)
        /\ \A k \in 1..Len(incidents) : incidents[k] = response.data[k]

\* C17 witness: the body just received lists an incident that cannot be
\* placed on the map before one that can, with the higher id first, and
\* is displayed as received.
C17_Witness ==
    /\ Succeeded(response)
    /\ Len(response.data) = 2
    /\ response.data[1].id = "5"
    /\ response.data[2].id = "1"
    /\ incidents = response.data

\* The incident has a first location carrying both coordinates.
HasFirstLocation(incident) ==
    /\ "locations" \in DOMAIN incident
    /\ incident.locations # <<>>
    /\ {"latitude", "longitude"} \subseteq DOMAIN incident.locations[1]

RECURSIVE Located(_)
\* The incidents of incs whose first location has both coordinates, neither
\* of them 0, in order.
Located(incs) ==
    IF incs = <<>> THEN <<>>
    ELSE (IF /\ HasFirstLocation(Head(incs))
             /\ Head(incs).locations[1].latitude # 0
             /\ Head(incs).locations[1].longitude # 0
          THEN <<Head(incs)>> ELSE <<>>) \o Located(Tail(incs))

C18_FilterToggle ==
    [][/\ \A v \in FilterSeverities :
              HandleSeverityFilter(v) =>
                  /\ severityFilter = None => severityFilter' = v
                  /\ severityFilter = v => severityFilter' = None
                  /\ severityFilter \notin {None, v} => severityFilter' = v
                  /\ typeFilter' = typeFilter
                  /\ selectedBounds' = selectedBounds
       /\ \A w \in FilterTypes :
              HandleTypeFilter(w) =>
                  /\ typeFilter = None => typeFilter' = w
                  /\ typeFilter = w => typeFilter' = None
                  /\ typeFilter \notin {None, w} => typeFilter' = w
                  /\ severityFilter' = severityFilter
                  /\ selectedBounds' = selectedBounds]_vars

\* C18 witness: with bounds and a type active, the request for severity
\* critical is followed by the request for severity low, same bounds and
\* same type, and low is the active severity.
C18_Witness ==
    /\ selectedBounds # Null
    /\ typeFilter # None
    /\ severityFilter = "low"
    /\ Len(inflight) = 2
    /\ IsScopedTo(inflight[1], selectedBounds)
    /\ CarriesFilters(inflight[1], "critical", typeFilter)
    /\ inflight[2] = CurrentUrl

\* C20: the only step that takes an active bounds filter away is the Clear
\* control, and after it the bounds filter is empty, selection mode is off
\* whether or not it was armed before, and the tool holds no drag state
\* and no map listeners.
C20_ClearDoesNotRearm ==
    [][/\ (selectedBounds # Null /\ selectedBounds' = Null) =>
              HandleClearSelection
       /\ HandleClearSelection =>
              /\ selectedBounds' = Null
              /\ ~selectionMode'
              /\ ~isDrawing'
              /\ tempBounds' = Null
              /\ handlers' = Null]_vars

\* C20 witness: bounds were selected, selection mode was armed again while
\* they were active (no bounds emitted since), and the clear that followed
\* left the request for the unscoped listing outstanding behind the scoped
\* one, with selection mode off.
C20_Witness ==
    /\ selectedBounds = Null
    /\ ~selectionMode
    /\ handlers = Null
    /\ emitCount = 0
    /\ Len(inflight) = 2
    /\ inflight[1].path = "/incidents/by-bounds"
    /\ IsUnscoped(inflight[2])
    /\ severityFilter = None

\* A pointer event on the map: press, move or release at some point.
MapPointerEvent ==
    \E p \in Points : MouseDown(p) \/ MouseMove(p) \/ MouseUp(p)

\* C21: while selection mode is off, a press, move or release on the map
\* records no anchor, produces no provisional rectangle, starts no drag,
\* emits no bounds, and leaves the view's filters, its outstanding
\* requests and its timer as they were.
C21_NoCaptureWhileModeOff ==
    [][(~selectionMode /\ MapPointerEvent) =>
           /\ startPoint' = Null
           /\ tempBounds' = Null
           /\ ~isDrawing'
           /\ emitted' = Null
           /\ ~selectionMode'
           /\ ~FiltersChange
           /\ inflight' = inflight
           /\ intervals' = intervals]_vars

\* C21 witness: with bounds selected earlier and selection mode off again,
\* the button is held down over the map and nothing was captured.
C21_Witness ==
    /\ ~selectionMode
    /\ selectedBounds # Null
    /\ buttonDown
    /\ startPoint = Null
    /\ tempBounds = Null
    /\ ~isDrawing
    /\ handlers = Null

\* C22: a pointer-move on the map while a drag is in progress makes the
\* provisional rectangle the pair (anchor, pointer) and changes nothing
\* else: nothing is emitted, the anchor, the drawing flag, the selected
\* bounds and the other filters stay, and no request is issued.
C22_MoveOnlyUpdatesRectangle ==
    [][\A p \in Points :
           (isDrawing /\ MouseMove(p)) =>
               /\ tempBounds' = <<startPoint, p>>
               /\ emitted' = Null
               /\ startPoint' = startPoint
               /\ isDrawing'
               /\ ~FiltersChange
               /\ inflight' = inflight
               /\ loading' = loading]_vars

\* C22 witness: during a drag, with bounds selected earlier, the
\* provisional rectangle runs from the anchor to another point.
C22_Witness ==
    /\ isDrawing
    /\ selectedBounds # Null
    /\ startPoint # Null
    /\ tempBounds # Null
    /\ tempBounds[1] = startPoint
    /\ tempBounds[2] # startPoint
    /\ emitted = Null

\* C23: while selection mode is on and there is no anchor, a pointer-move
\* or a release on the map emits nothing and leaves the anchor, the
\* provisional rectangle, the drawing flag and the selected bounds as they
\* were; and there is one selection at a time: a step that emits bounds
\* emits those of the one anchor held, and leaves no anchor, no rectangle
\* and no drag behind.
C23_NoAnchorNoOp ==
    [][/\ \A p \in Points :
              (selectionMode /\ startPoint = Null
                   /\ (MouseMove(p) \/ MouseUp(p))) =>
                  /\ emitted' = Null
                  /\ startPoint' = Null
                  /\ tempBounds' = tempBounds
                  /\ isDrawing' = isDrawing
                  /\ ~FiltersChange
                  /\ inflight' = inflight
       /\ emitted' # Null =>
              /\ startPoint # Null
              /\ emitted'.anchor = startPoint
              /\ startPoint' = Null
              /\ tempBounds' = Null
              /\ ~isDrawing']_vars

\* C23 witness: selection mode is armed, the button has been released with
\* no anchor set, and the tool is as it was: no anchor, no rectangle, no
\* drag, nothing emitted since the mode was armed.
C23_Witness ==
    /\ selectionMode
    /\ handlers # Null
    /\ ~buttonDown
    /\ startPoint = Null
    /\ tempBounds = Null
    /\ ~isDrawing
    /\ emitCount = 0
    /\ selectedBounds # Null

\* C27: switching selection mode off during a drag, by the Select Area
\* button or by the Clear control, discards the anchor and the provisional
\* rectangle, ends the drag, emits nothing and removes the listeners; the
\* button leaves the selected bounds as they were; and a release on the map
\* while the mode is off emits nothing.
C27_ModeOffAbortsDrag ==
    [][/\ (selectionMode /\ isDrawing /\ ToggleSelectionMode) =>
              /\ ~selectionMode'
              /\ startPoint' = Null
              /\ tempBounds' = Null
              /\ ~isDrawing'
              /\ handlers' = Null
              /\ emitted' = Null
              /\ selectedBounds' = selectedBounds
       /\ (isDrawing /\ HandleClearSelection) =>
              /\ ~selectionMode'
              /\ startPoint' = Null
              /\ tempBounds' = Null
              /\ ~isDrawing'
              /\ handlers' = Null
              /\ emitted' = Null
       /\ \A p \in Points :
              (~selectionMode /\ MouseUp(p)) =>
                  (emitted' = Null /\ selectedBounds' = selectedBounds)]_vars

\* C27 witness: bounds were selected, the mode was armed again and switched
\* off with the button still held: the tool holds no drag state and the
\* bounds selected before are still the active ones.
C27_Witness ==
    /\ ~selectionMode
    /\ buttonDown
    /\ emitCount = 0
    /\ selectedBounds # Null
    /\ startPoint = Null
    /\ tempBounds = Null
    /\ ~isDrawing
    /\ inflight = <<>>

\* C26: in every state the tool holds an anchor exactly when isDrawing is
\* true, holds a provisional rectangle only when isDrawing is true, and
\* isDrawing is true only when selection mode is on.
C26_DragStateConsistent ==
    /\ (startPoint # Null) <=> isDrawing
    /\ tempBounds # Null => isDrawing
    /\ isDrawing => selectionMode

\* C26 witness: a drag has just started: the mode is on, the button is
\* down, the anchor is set and the rectangle is the anchor alone.
C26_Witness ==
    /\ selectionMode
    /\ buttonDown
    /\ isDrawing
    /\ startPoint # Null
    /\ tempBounds = <<startPoint, startPoint>>

\* The incident has a location inside the box bounds, edges included.
Inside(incident, bounds) ==
    \E k \in 1..Len(incident.locations) :
        /\ bounds.south <= incident.locations[k].latitude
        /\ incident.locations[k].latitude <= bounds.north
        /\ bounds.west <= incident.locations[k].longitude
        /\ incident.locations[k].longitude <= bounds.east

\* The box of the example: north 41, south 39, east -73, west -75.
ExampleBox == [north |-> 41, south |-> 39, east |-> -73, west |-> -75]

\* C24: the by-bounds query for the example box answers with the incident
\* at (40,-74) and not the one at (10,10); and with a bounds filter active,
\* once the request issued last has succeeded and nothing is outstanding,
\* every displayed incident has a location inside the selected box.
C24_DisplayedInsideSelectedBox ==
    /\ ServerResponse(BuildUrl(ExampleBox, None, None))
           = <<ServerIncidents[1]>>
    /\ (selectedBounds # Null /\ inflight = <<>> /\ latest = "ok") =>
           \A k \in 1..Len(incidents) : Inside(incidents[k], selectedBounds)

\* C25: every step that issues a request, whatever causes it, issues
\* exactly one, and it is the query for the filter state the view has when
\* the step is over: the new state for a filter change, the unchanged
\* state for the mount, a timer tick or a manual refresh.
C25_FetchCarriesCurrentFilters ==
    [][Len(inflight') > Len(inflight) =>
           /\ inflight' = Append(inflight, CurrentUrl')
           /\ (TimerTick \/ Refresh) => CurrentUrl' = CurrentUrl]_vars

\* C25 witness: after bounds and a type were set, the query for that
\* filter state is outstanding twice, the second issued with the filters
\* unchanged, while an earlier answer is on display.
C25_Witness ==
    /\ selectedBounds # Null
    /\ typeFilter # None
    /\ latest = "pending"
    /\ Len(inflight) = 2
    /\ inflight[1] = CurrentUrl
    /\ inflight[2] = CurrentUrl
    /\ incidents # <<>>

\* Both first coordinates of the incident are present and neither is 0.
BothTruthy(incident) ==
    /\ HasFirstLocation(incident)
    /\ incident.locations[1].latitude # 0
    /\ incident.locations[1].longitude # 0

\* The positions in incs of the incidents with both coordinates truthy.
TruthyAt(incs) == {k \in 1..Len(incs) : BothTruthy(incs[k])}

RECURSIVE Total(_, _, _)
\* The sum of coordinate key of the first locations of incs at positions.
Total(incs, positions, key) ==
    IF positions = {} THEN 0
    ELSE LET k == CHOOSE k \in positions : TRUE
         IN  incs[k].locations[1][key] + Total(incs, positions \ {k}, key)

\* C28: an incident of the displayed collection has a Marker iff both its
\* first coordinates are truthy, so one with a coordinate of exactly 0 has
\* none, like one with a missing coordinate; there are as many Markers as
\* such incidents; and the map centre is the average over exactly those
\* incidents, or the default [20, 0] when there are none.
C28_TruthyCoordinatesOnly ==
    LET shown == TruthyAt(incidents)
    IN  /\ \A k \in 1..Len(incidents) :
               BothTruthy(incidents[k]) <=>
                   \E m \in 1..Len(markers) :
                       /\ "key" \in DOMAIN markers[m]
                       /\ markers[m].key = incidents[k].id
        /\ Len(markers) = Cardinality(shown)
        /\ mapCenter =
               IF shown = {}
               THEN [lat |-> [num |-> 20, den |-> 1],
                     lng |-> [num |-> 0, den |-> 1]]
               ELSE [lat |-> [num |-> Total(incidents, shown, "latitude"),
                              den |-> Cardinality(shown)],
                     lng |-> [num |-> Total(incidents, shown, "longitude"),
                              den |-> Cardinality(shown)]]

\* C28 witness: the displayed collection holds an incident at latitude 0
\* and one at (40, -74): only the second has a Marker and the centre is
\* the second's position.
C28_Witness ==
    /\ Len(incidents) = 2
    /\ HasFirstLocation(incidents[1])
    /\ incidents[1].locations[1].latitude = 0
    /\ BothTruthy(incidents[2])
    /\ Len(markers) = 1
    /\ markers[1].key = incidents[2].id
    /\ mapCenter.lat = [num |-> 40, den |-> 1]
    /\ mapCenter.lng = [num |-> -74, den |-> 1]

\* C29: while the loading indicator is on no manual refresh can be
\* started; and a step that issues a request while another is outstanding
\* is a timer tick, a filter change, or a manual refresh started with the
\* indicator off.
C29_RefreshOnlyWhenIdle ==
    /\ [](loading => ~ENABLED Refresh)
    /\ [][(inflight # <<>> /\ Len(inflight') > Len(inflight)) =>
              \/ TimerTick
              \/ FiltersChange
              \/ emitted' # Null
              \/ (~loading /\ Refresh)]_vars

\* C29 witness: one of two overlapping requests has completed and cleared
\* the indicator while the other is still outstanding, and a manual
\* refresh can be started.
C29_Witness ==
    /\ Mounted
    /\ ~loading
    /\ Len(inflight) = 1
    /\ latest = "pending"
    /\ ENABLED Refresh

\* The fetchData call that ends in this step is the one started last.
LastPollSettles ==
    /\ dashPolls # <<>>
    /\ dashPolls' = SubSeq(dashPolls, 1, Len(dashPolls) - 1)

\* C30: in the mounted Dashboard, a fetchData call that ends in its catch
\* block replaces the incidents by the one built-in incident, sets the
\* error flag and leaves analytics as it was; every start of a call resets
\* the error flag; a call that ends successfully leaves the server's
\* incidents and analytics on display with the error flag null; and the
\* unmounted Dashboard has no live interval.
C30_DashboardPollAllOrNothing ==
    [][/\ (DashMounted /\ dashSettled' = "error") =>
              /\ dashIncidents' = MockIncidents
              /\ dashAnalytics' = dashAnalytics
              /\ dashError' # None
       /\ Len(dashPolls') > Len(dashPolls) => dashError' = None
       /\ (DashMounted /\ dashSettled' = "ok") =>
              /\ dashIncidents' = DashServerIncidents
              /\ dashAnalytics' \in AnalyticsBodies
              /\ LastPollSettles => dashError' = None
       /\ dashSettled' = None =>
              /\ dashIncidents' = dashIncidents
              /\ dashAnalytics' = dashAnalytics
       /\ dashPhase' = "unmounted" => dashIntervals' = 0]_vars

====
